---- MODULE Spec2Model ----
(***************************************************************************)
(* A model of the todo server of simple-todo-app: the todos table and the  *)
(* handlers createTodo, toggleTodo, deleteTodo and updateTodo, each call   *)
(* run by one of the requests in Procs.  A handler's awaits are the points *)
(* where requests interleave, so every database statement is one step and  *)
(* the handler code between two statements is one step.                    *)
(*                                                                         *)
(* Rows get created_at/updated_at from the database's clock (column        *)
(* default now()) on insert, and updated_at from the handler's clock       *)
(* (new Date()) on toggle and update.  Both clocks have a finite           *)
(* resolution and nothing in the code relates them, so they are two        *)
(* counters that advance on their own.                                     *)
(***************************************************************************)
EXTENDS Integers, Sequences, FiniteSets, TLC

\* ---------------------------------------------------------------- bounds
MaxTodos == 2
MaxTime == 1
MaxToggleCalls == 3
MaxListed == 4
MaxClientCalls == 3

\* the requests the server may be running at once
Procs == {"r1", "r2"}
\* the request slot of a server that is handed one request at a time
Req == "r1"
Titles == {"A", "B"}
DescStrings == {"", "x"}
\* ids a caller may name: every id that can be assigned and one that never is
Ids == 1..(MaxTodos + 1)

\* ---------------------------------------------------------------- values
\* A nullable text column holds Null or a string s, written Str(s).
Null == <<>>
Str(s) == <<s>>
DescValues == {Null} \cup {Str(s) : s \in DescStrings}

\* An optional input field is Undefined (the key is left out) or Given(v).
Undefined == <<>>
Given(v) == <<v>>
IsGiven(f) == f # Undefined
ValueOf(f) == f[1]

VARIABLES
    todos,          \* the todos table: a set of rows
    nextId,         \* the serial sequence behind the id column
    dbNow,          \* the database's clock, now()
    jsNow,          \* the handler's clock, new Date()
    pc,             \* where each request stands in its handler
    call,           \* the handler each request runs and its input
    existingTodos,  \* toggleTodo/updateTodo: the rows its select returned
    setValues,      \* toggleTodo/updateTodo: the values of its .set({...})
    response,       \* what the handler that finished in this step returned or threw
    logged,         \* what that handler wrote with console.error
    before,         \* history: the table as that handler's last step found it
    toggleLog,      \* history: the toggleTodo calls begun and ended, in order
    clientTodos,    \* App: the todos state, the list shown
    isLoading,      \* App: the isLoading state
    isDemo,         \* App: the isDemo state
    storage,        \* localStorage: the item 'demo-todos'
    pending,        \* App: the handler calls waiting for the server, with what each closed over
    clientNow,      \* the browser's clock
    clientCalls,    \* how many handler calls and reloads the user has made
    clientDone      \* history: the App handler that ended last, and the list it found

serverVars == <<todos, nextId, dbNow, jsNow, pc, call, existingTodos, setValues,
                response, logged, before>>
clientVars == <<clientTodos, isLoading, isDemo, storage, pending, clientNow, clientCalls,
                clientDone>>
vars == <<serverVars, toggleLog, clientVars>>

\* ---------------------------------------------------------------- results
NoCall == [op |-> "none"]
NoValues == [op |-> "none"]
Returned(row) == [kind |-> "todo", todo |-> row]
ReturnedUndefined == [kind |-> "undefined"]
Thrown(message) == [kind |-> "error", message |-> message]

\* the errors a database statement may fail with
StoreErrors == {<<"connection terminated">>, <<"deadlock detected">>}

\* mutant: the catch throws an error of its own
RethrownAsNew(error) == <<"Internal server error">>

\* catch (error) { ...; throw error; }
Rethrown(error) == error

\* A handler hands its outcome to its caller in the step that ends it, and the
\* caller takes it (Deliver) before anything else happens.
NoResponse == [op |-> "none"]
Response(p, op, input, outcome) ==
    [op |-> op, proc |-> p, input |-> input, outcome |-> outcome]

\* ---------------------------------------------------------------- createTodo
\* mutant: ?? for ||, which keeps the empty string
DescriptionOrNullKeepEmpty(description) ==
    IF ~IsGiven(description) THEN Null
    ELSE IF ValueOf(description) = Null THEN Null
    ELSE ValueOf(description)

\* input.description || null : undefined, null and "" are all falsy
DescriptionOrNull(description) ==
    IF ~IsGiven(description) THEN Null
    ELSE IF ValueOf(description) = Null THEN Null
    ELSE IF ValueOf(description) = Str("") THEN Null
    ELSE ValueOf(description)

CreateInputs == [title : Titles,
                 description : {Undefined} \cup {Given(v) : v \in DescValues}]
\* the inputs the specifications with concurrent requests draw from
PlainCreateInputs == {i \in CreateInputs : i.title = "A" /\ i.description = Undefined}

\* mutant: the insert names a fixed id instead of taking the sequence's
InsertedRowFixedId(input, id, now) ==
    [id |-> 1,
     title |-> input.title,
     description |-> IF input.description \in {Undefined, Given(Null), Given(Str(""))}
                     THEN Null ELSE ValueOf(input.description),
     completed |-> FALSE,
     created_at |-> now,
     updated_at |-> now]

\* mutant: the insert takes the lowest id no row of the table has
InsertedRowLowestFreeId(input, id, now) ==
    [id |-> CHOOSE i \in 1..id : /\ \A r \in todos : r.id # i
                                 /\ \A j \in 1..(i - 1) : \E r \in todos : r.id = j,
     title |-> input.title,
     description |-> IF input.description \in {Undefined, Given(Null), Given(Str(""))}
                     THEN Null ELSE ValueOf(input.description),
     completed |-> FALSE,
     created_at |-> now,
     updated_at |-> now]

\* the row the insert stores: id from the sequence, both timestamps from now()
InsertedRow(input, id, now) ==
    [id |-> id,
     title |-> input.title,
     description |-> DescriptionOrNull(input.description),
     completed |-> FALSE,
     created_at |-> now,
     updated_at |-> now]

\* the insert fails: the catch logs the error and throws it again.  A failed
\* insert may have drawn its id from the sequence already.
CreateTodoFails(p, input, error) ==
    /\ response = NoResponse
    /\ pc[p] = "idle"
    /\ response' = Response(p, "createTodo", input, Thrown(Rethrown(error)))
    /\ logged' = <<"Todo creation failed:", error>>
    /\ before' = todos
    /\ \/ nextId' = nextId
       \/ nextId <= MaxTodos /\ nextId' = nextId + 1
    /\ UNCHANGED <<todos, dbNow, jsNow, pc, call, existingTodos, setValues>>

CreateTodo(p, input) ==
    /\ response = NoResponse
    /\ pc[p] = "idle"
    /\ nextId <= MaxTodos
    /\ LET row == InsertedRow(input, nextId, dbNow) IN
        /\ todos' = todos \cup {row}
        /\ response' = Response(p, "createTodo", input, Returned(row))
    /\ logged' = <<>>
    /\ before' = todos
    /\ nextId' = nextId + 1
    /\ UNCHANGED <<dbNow, jsNow, pc, call, existingTodos, setValues>>

\* ---------------------------------------------------------------- toggleTodo
\* .where(eq(todosTable.id, input.id))
RowsWithId(rows, id) == {r \in rows : r.id = id}

\* existingTodos.length
Length(rows) == Cardinality(rows)

\* mutant: the message does not interpolate the id
NotFoundMessageNoId(id) == <<"Todo not found">>

NotFoundMessage(id) == <<"Todo with id ", id, " not found">>

\* await db.select().from(todosTable).where(eq(todosTable.id, input.id))
ToggleSelect(p, id) ==
    /\ response = NoResponse
    /\ pc[p] = "idle"
    /\ call' = [call EXCEPT ![p] = [op |-> "toggleTodo", input |-> [id |-> id]]]
    /\ existingTodos' = [existingTodos EXCEPT ![p] = RowsWithId(todos, id)]
    /\ pc' = [pc EXCEPT ![p] = "toggle_check"]
    /\ UNCHANGED <<todos, nextId, dbNow, jsNow, setValues, response, logged, before>>

\* .set({ completed: !currentTodo.completed, updated_at: new Date() })
ToggleValues(currentTodo, now) ==
    [op |-> "toggle", completed |-> ~currentTodo.completed, updated_at |-> now]

\* the handler leaves by its throw: the request is over
Leave(p) ==
    /\ pc' = [pc EXCEPT ![p] = "idle"]
    /\ call' = [call EXCEPT ![p] = NoCall]
    /\ existingTodos' = [existingTodos EXCEPT ![p] = {}]
    /\ setValues' = [setValues EXCEPT ![p] = NoValues]

\* the select fails: the catch logs the error and throws it again
ToggleSelectFails(p, id, error) ==
    /\ response = NoResponse
    /\ pc[p] = "idle"
    /\ response' = Response(p, "toggleTodo", [id |-> id], Thrown(Rethrown(error)))
    /\ logged' = <<"Toggle todo failed:", error>>
    /\ before' = todos
    /\ UNCHANGED <<todos, nextId, dbNow, jsNow, pc, call, existingTodos, setValues>>

\* the handler between its select and its update
ToggleCheck(p) ==
    /\ response = NoResponse
    /\ pc[p] = "toggle_check"
    /\ IF Length(existingTodos[p]) = 0
       THEN /\ response' = Response(p, "toggleTodo", call[p].input,
                                    Thrown(Rethrown(NotFoundMessage(call[p].input.id))))
            /\ logged' = <<"Toggle todo failed:", NotFoundMessage(call[p].input.id)>>
            /\ before' = todos
            /\ Leave(p)
       ELSE /\ \E currentTodo \in existingTodos[p] :
                setValues' = [setValues EXCEPT ![p] = ToggleValues(currentTodo, jsNow)]
            /\ pc' = [pc EXCEPT ![p] = "toggle_update"]
            /\ UNCHANGED <<call, existingTodos, response, logged, before>>
    /\ UNCHANGED <<todos, nextId, dbNow, jsNow>>

\* mutant: the flip is done in place on the row as the UPDATE finds it
ToggledRowInPlace(r, values) ==
    [r EXCEPT !.completed = ~r.completed, !.updated_at = values.updated_at]

\* the row an UPDATE ... SET leaves for a row it matches
ToggledRow(r, values) ==
    [r EXCEPT !.completed = values.completed, !.updated_at = values.updated_at]

\* result[0] of .returning(): the updated row, undefined when none matched
FirstReturned(rows) ==
    IF rows = {} THEN ReturnedUndefined ELSE Returned(CHOOSE r \in rows : TRUE)

\* await db.update(todosTable).set(...).where(eq(id)).returning(); return result[0]
ToggleUpdate(p) ==
    /\ response = NoResponse
    /\ pc[p] = "toggle_update"
    /\ LET id == call[p].input.id
           updated == {ToggledRow(r, setValues[p]) : r \in RowsWithId(todos, id)} IN
        /\ todos' = (todos \ RowsWithId(todos, id)) \cup updated
        /\ response' = Response(p, "toggleTodo", call[p].input, FirstReturned(updated))
    /\ logged' = <<>>
    /\ before' = todos
    /\ Leave(p)
    /\ UNCHANGED <<nextId, dbNow, jsNow>>

\* the update fails and changes no row: the catch logs the error and throws it
\* again
ToggleUpdateFails(p, error) ==
    /\ response = NoResponse
    /\ pc[p] = "toggle_update"
    /\ response' = Response(p, "toggleTodo", call[p].input, Thrown(Rethrown(error)))
    /\ logged' = <<"Toggle todo failed:", error>>
    /\ before' = todos
    /\ Leave(p)
    /\ UNCHANGED <<todos, nextId, dbNow, jsNow>>

\* ---------------------------------------------------------------- deleteTodo
\* mutant: the DELETE has lost its where clause
DeletedRowsNoWhere(rows, id) == rows

\* db.delete(todosTable).where(eq(todosTable.id, input.id)): the rows it removes
DeletedRows(rows, id) == RowsWithId(rows, id)

\* result.rowCount of the DELETE
RowCount(rows, id) == Cardinality(DeletedRows(rows, id))

\* mutant: >= for >
DeleteSuccessAlways(rowCount) == rowCount >= 0

\* (result.rowCount ?? 0) > 0
DeleteSuccess(rowCount) == rowCount > 0

DeleteTodo(p, id) ==
    /\ response = NoResponse
    /\ pc[p] = "idle"
    /\ todos' = todos \ DeletedRows(todos, id)
    /\ response' = Response(p, "deleteTodo", [id |-> id],
                     [kind |-> "deleted", success |-> DeleteSuccess(RowCount(todos, id))])
    /\ logged' = <<>>
    /\ before' = todos
    /\ UNCHANGED <<nextId, dbNow, jsNow, pc, call, existingTodos, setValues>>

\* the delete fails and removes no row: the catch logs the error and throws it
\* again
DeleteTodoFails(p, id, error) ==
    /\ response = NoResponse
    /\ pc[p] = "idle"
    /\ response' = Response(p, "deleteTodo", [id |-> id], Thrown(Rethrown(error)))
    /\ logged' = <<"Todo deletion failed:", error>>
    /\ before' = todos
    /\ UNCHANGED <<todos, nextId, dbNow, jsNow, pc, call, existingTodos, setValues>>

\* ---------------------------------------------------------------- updateTodo
UpdateInputs == [id : Ids,
                 title : {Undefined} \cup {Given(t) : t \in Titles},
                 description : {Undefined} \cup {Given(v) : v \in DescValues},
                 completed : {Undefined} \cup {Given(b) : b \in BOOLEAN}]

PlainUpdateInputs ==
    {i \in UpdateInputs : /\ i.title = Undefined
                          /\ i.description = Undefined
                          /\ i.completed \in {Undefined, Given(TRUE)}}

UpdateNotFoundMessage == <<"Todo", " not found">>

\* mutant: the not-found check is left out
UpdateFoundAlways(rows) == TRUE

\* whether the fetch found the record
UpdateFound(rows) == rows # {}

\* fetch the existing record by id
UpdateSelect(p, input) ==
    /\ response = NoResponse
    /\ pc[p] = "idle"
    /\ call' = [call EXCEPT ![p] = [op |-> "updateTodo", input |-> input]]
    /\ existingTodos' = [existingTodos EXCEPT ![p] = RowsWithId(todos, input.id)]
    /\ pc' = [pc EXCEPT ![p] = "update_check"]
    /\ UNCHANGED <<todos, nextId, dbNow, jsNow, setValues, response, logged, before>>

\* only the fields present in the input, and always updated_at
UpdateValues(input, now) ==
    [op |-> "update", title |-> input.title, description |-> input.description,
     completed |-> input.completed, updated_at |-> now]

UpdateCheck(p) ==
    /\ response = NoResponse
    /\ pc[p] = "update_check"
    /\ IF ~UpdateFound(existingTodos[p])
       THEN /\ response' = Response(p, "updateTodo", call[p].input,
                                    Thrown(UpdateNotFoundMessage))
            /\ logged' = <<>>
            /\ before' = todos
            /\ Leave(p)
       ELSE /\ setValues' = [setValues EXCEPT ![p] = UpdateValues(call[p].input, jsNow)]
            /\ pc' = [pc EXCEPT ![p] = "update_write"]
            /\ UNCHANGED <<call, existingTodos, response, logged, before>>
    /\ UNCHANGED <<todos, nextId, dbNow, jsNow>>

\* mutant: a null description is taken for a description left out
UpdatedRowNullAsOmitted(r, values) ==
    [r EXCEPT !.title = IF IsGiven(values.title) THEN ValueOf(values.title) ELSE @,
              !.description = IF IsGiven(values.description)
                                 /\ ValueOf(values.description) # Null
                              THEN ValueOf(values.description) ELSE @,
              !.completed = IF IsGiven(values.completed)
                            THEN ValueOf(values.completed) ELSE @,
              !.updated_at = values.updated_at]

\* the row the write leaves: the fields given replaced, updated_at always
UpdatedRow(r, values) ==
    [r EXCEPT !.title = IF IsGiven(values.title) THEN ValueOf(values.title) ELSE @,
              !.description = IF IsGiven(values.description)
                              THEN ValueOf(values.description) ELSE @,
              !.completed = IF IsGiven(values.completed)
                            THEN ValueOf(values.completed) ELSE @,
              !.updated_at = values.updated_at]

UpdateWrite(p) ==
    /\ response = NoResponse
    /\ pc[p] = "update_write"
    /\ LET id == call[p].input.id
           updated == {UpdatedRow(r, setValues[p]) : r \in RowsWithId(todos, id)} IN
        /\ todos' = (todos \ RowsWithId(todos, id)) \cup updated
        /\ response' = Response(p, "updateTodo", call[p].input, FirstReturned(updated))
    /\ logged' = <<>>
    /\ before' = todos
    /\ Leave(p)
    /\ UNCHANGED <<nextId, dbNow, jsNow>>

\* ---------------------------------------------------------------- getTodos
\* mutant: ordered by created_at ascending
OldestFirst(s) ==
    \A i \in DOMAIN s : \A j \in DOMAIN s : i < j => s[i].created_at <= s[j].created_at

\* every record of the table, newest created first; records created at the
\* same time come in either order
NewestFirst(s) ==
    \A i \in DOMAIN s : \A j \in DOMAIN s : i < j => s[i].created_at >= s[j].created_at

GetTodosResults(rows) ==
    {s \in [1..Cardinality(rows) -> rows] :
        /\ \A r \in rows : \E i \in DOMAIN s : s[i] = r
        /\ NewestFirst(s)}

GetTodos(p) ==
    /\ response = NoResponse
    /\ pc[p] = "idle"
    /\ \E s \in GetTodosResults(todos) :
        response' = Response(p, "getTodos", <<>>, [kind |-> "todos", todos |-> s])
    /\ logged' = <<>>
    /\ before' = todos
    /\ UNCHANGED <<todos, nextId, dbNow, jsNow, pc, call, existingTodos, setValues>>

\* ---------------------------------------------------------------- environment
\* the caller takes the outcome of the handler that has just ended
Deliver ==
    /\ response # NoResponse
    /\ response' = NoResponse
    /\ logged' = <<>>
    /\ before' = {}
    /\ UNCHANGED <<todos, nextId, dbNow, jsNow, pc, call, existingTodos, setValues>>

TickDb ==
    /\ response = NoResponse
    /\ dbNow < MaxTime
    /\ dbNow' = dbNow + 1
    /\ UNCHANGED <<todos, nextId, jsNow, pc, call, existingTodos, setValues, response,
                   logged, before>>

TickJs ==
    /\ response = NoResponse
    /\ jsNow < MaxTime
    /\ jsNow' = jsNow + 1
    /\ UNCHANGED <<todos, nextId, dbNow, pc, call, existingTodos, setValues, response,
                   logged, before>>

\* ---------------------------------------------------------------- App (client)
NoPending == [op |-> "none"]

\* Date.now(): the clock reading as a number of milliseconds, far above every
\* id the server's sequence assigns
DateNow(now) == MaxTodos + 2 + now

\* the textarea's onChange: e.target.value || null
TextareaChange(value) == IF value = "" THEN Null ELSE Str(value)

\* what the form can hold when it is submitted: a title that is not blank
FormDatas == {[title |-> t, description |-> TextareaChange(v), typed |-> v] :
                 t \in Titles, v \in DescStrings}
PlainFormDatas == {f \in FormDatas : f.title = "A"}

\* trpc.createTodo.mutate(formData)
FormInput(formData) ==
    [title |-> formData.title, description |-> Given(formData.description)]

\* JSON.stringify of a Date, and new Date(...) of that string
ToISOString(date) == <<"ISO", date>>
NewDate(string) == string[2]

\* JSON.stringify(updatedTodos): the text of an array of todos
Stringify(list) ==
    [json |-> "todos",
     elements |-> [i \in DOMAIN list |-> [list[i] EXCEPT !.created_at = ToISOString(@),
                                                         !.updated_at = ToISOString(@)]]]

\* Texts the App never writes, which the item holds only when it was written or
\* damaged from outside: one that is not JSON, and the JSON text [null].
NotJSON == [json |-> "invalid"]
NullElement == [json |-> "null element"]
DamagedItems == {Str(NotJSON), Str(NullElement)}

\* whether JSON.parse(savedTodos) or the parsed.map(...) after it throws
ParseThrows(text) == text.json = "invalid"
MapThrows(text) == text.json = "null element"

\* JSON.parse(savedTodos) of the text of an array
JSONParse(text) == text.elements

\* parsed.map((todo) => ({ ...todo, created_at: new Date(...), updated_at: ... }))
TodosWithDates(parsed) ==
    [i \in DOMAIN parsed |-> [parsed[i] EXCEPT !.created_at = NewDate(@),
                                               !.updated_at = NewDate(@)]]

\* n readings of the browser's clock one after another, from the reading `from`
\* on: the clock may advance between two of them
ClockReads(n, from) ==
    {reads \in [1..n -> from..MaxTime] :
        \A i \in 1..n : \A j \in 1..n : i < j => reads[i] <= reads[j]}

\* the clock after the readings
AfterReads(n, reads, from) == IF n = 0 THEN from ELSE reads[n]

\* the samples, with one new Date() for each created_at and updated_at.  The
\* last character of the first title, U+1F389, is written as its JavaScript
\* escape.
sampleTodos(reads) ==
    << [id |-> 1, title |-> "Welcome to your Todo App! \\uD83C\\uDF89",
        description |-> Str("This is a sample task to show how the app works"),
        completed |-> FALSE, created_at |-> reads[1], updated_at |-> reads[2]],
       [id |-> 2, title |-> "Try adding a new task",
        description |-> Str("Use the form above to create your own tasks"),
        completed |-> FALSE, created_at |-> reads[3], updated_at |-> reads[4]],
       [id |-> 3, title |-> "Mark tasks as completed",
        description |-> Str("Click the circle icon to toggle completion status"),
        completed |-> TRUE, created_at |-> reads[5], updated_at |-> reads[6]] >>

\* a handler is called: it closes over the todos and isDemo of the render that
\* made it, and its trpc call is sent
Called(p, op, input) ==
    /\ pending[p] = NoPending
    /\ clientCalls < MaxClientCalls
    /\ clientCalls' = clientCalls + 1
    /\ pending' = [pending EXCEPT ![p] =
          [op |-> op, input |-> input, todos |-> clientTodos, isDemo |-> isDemo,
           stage |-> "sent"]]

\* the handler that ends in this step, the list it found and what it closed over
Done(p, failed) ==
    [op |-> pending[p].op, input |-> pending[p].input, failed |-> failed,
     shown |-> clientTodos, todos |-> pending[p].todos, isDemo |-> pending[p].isDemo]

\* useEffect(() => { loadTodos(); }): the page is opened or reloaded
Reload(p) ==
    /\ response = NoResponse
    /\ \A q \in Procs : pending[q] = NoPending
    /\ clientCalls < MaxClientCalls
    /\ clientCalls' = clientCalls + 1
    /\ clientTodos' = <<>>
    /\ isLoading' = TRUE
    /\ isDemo' = FALSE
    /\ pending' = [pending EXCEPT ![p] =
          [op |-> "loadTodos", input |-> <<>>, todos |-> <<>>, isDemo |-> FALSE,
           stage |-> "sent"]]
    /\ clientDone' = NoPending
    /\ UNCHANGED <<storage, clientNow>>

\* loadTodos, try: setTodos(result)
LoadTodosThen(p, result) ==
    /\ clientTodos' = result
    /\ isLoading' = FALSE
    /\ UNCHANGED <<isDemo, storage>>

\* whether the inner try of loadTodos' catch gets to its setTodos and return: an
\* item is saved (no text here is the empty string) and parsing it does not throw
SavedTodosLoad(item) ==
    /\ item # Null
    /\ ~ParseThrows(item[1])
    /\ ~MapThrows(item[1])

\* loadTodos, catch: the saved list if there is one that parses, the samples if
\* not
LoadTodosCatch(p) ==
    /\ isDemo' = TRUE
    /\ IF SavedTodosLoad(storage)
       THEN /\ clientTodos' = TodosWithDates(JSONParse(storage[1]))
            /\ UNCHANGED clientNow
       ELSE \E reads \in ClockReads(6, clientNow) :
            /\ clientTodos' = sampleTodos(reads)
            /\ clientNow' = AfterReads(6, reads, clientNow)
    /\ isLoading' = FALSE
    /\ UNCHANGED storage

IsSubmitting == \E q \in Procs : pending[q].op = "handleSubmit"

HandleSubmit(p, formData) ==
    /\ response = NoResponse
    /\ ~isLoading
    /\ ~IsSubmitting
    /\ Len(clientTodos) < MaxListed
    /\ Called(p, "handleSubmit", formData)
    /\ UNCHANGED <<clientTodos, isLoading, isDemo, storage, clientNow, clientDone>>

\* setTodos((prev) => [...prev, response])
HandleSubmitThen(p, created) ==
    /\ clientTodos' = Append(clientTodos, created)
    /\ UNCHANGED <<isLoading, isDemo, storage>>

\* mutant: the todo made locally is complete from the start
newTodoCompleted(formData, reads) ==
    [id |-> DateNow(reads[1]),
     title |-> formData.title,
     description |-> IF formData.description \in {Null, Str("")}
                     THEN Null ELSE formData.description,
     completed |-> TRUE,
     created_at |-> reads[2],
     updated_at |-> reads[3]]

\* three readings of the clock: Date.now(), new Date(), new Date()
newTodo(formData, reads) ==
    [id |-> DateNow(reads[1]),
     title |-> formData.title,
     description |-> IF formData.description \in {Null, Str("")}
                     THEN Null ELSE formData.description,
     completed |-> FALSE,
     created_at |-> reads[2],
     updated_at |-> reads[3]]

\* if (isDemo) localStorage.setItem('demo-todos', JSON.stringify(updatedTodos))
Saved(demo, updatedTodos) ==
    IF demo THEN Str(Stringify(updatedTodos)) ELSE storage

\* setTodos(updatedTodos) and the save, of each catch
Fallback(p, updatedTodos) ==
    /\ clientTodos' = updatedTodos
    /\ storage' = Saved(pending[p].isDemo, updatedTodos)
    /\ UNCHANGED <<isLoading, isDemo>>

HandleSubmitCatch(p) ==
    \E reads \in ClockReads(3, clientNow) :
        /\ Fallback(p, Append(pending[p].todos, newTodo(pending[p].input, reads)))
        /\ clientNow' = AfterReads(3, reads, clientNow)

HandleToggle(p, id) ==
    /\ response = NoResponse
    /\ ~isLoading
    /\ \E i \in DOMAIN clientTodos : clientTodos[i].id = id
    /\ Called(p, "handleToggle", [id |-> id])
    /\ UNCHANGED <<clientTodos, isLoading, isDemo, storage, clientNow, clientDone>>

\* prev.map((todo) => todo.id === id ? updatedTodo : todo)
HandleToggleThen(p, updatedTodo) ==
    /\ clientTodos' = [i \in DOMAIN clientTodos |->
                          IF clientTodos[i].id = pending[p].input.id
                          THEN updatedTodo ELSE clientTodos[i]]
    /\ UNCHANGED <<isLoading, isDemo, storage>>

\* the todos of the render whose handler this is
ClosedOver(p) == pending[p].todos

\* todos.map((todo) => todo.id === id ? { ...todo, completed: !todo.completed,
\*                                       updated_at: new Date() } : todo)
\* one new Date() for each todo with the id, in the order of the list
Matching(list, id, i) == Cardinality({j \in 1..i : list[j].id = id})

ToggledLocally(list, id, reads) ==
    [i \in DOMAIN list |->
        IF list[i].id = id
        THEN [list[i] EXCEPT !.completed = ~list[i].completed,
                             !.updated_at = reads[Matching(list, id, i)]]
        ELSE list[i]]

HandleToggleCatch(p) ==
    LET id == pending[p].input.id
        n == Matching(ClosedOver(p), id, Len(ClosedOver(p))) IN
    \E reads \in ClockReads(n, clientNow) :
        /\ Fallback(p, ToggledLocally(ClosedOver(p), id, reads))
        /\ clientNow' = AfterReads(n, reads, clientNow)

HandleDelete(p, id) ==
    /\ response = NoResponse
    /\ ~isLoading
    /\ \E i \in DOMAIN clientTodos : clientTodos[i].id = id
    /\ Called(p, "handleDelete", [id |-> id])
    /\ UNCHANGED <<clientTodos, isLoading, isDemo, storage, clientNow, clientDone>>

\* filter((todo) => todo.id !== id)
WithoutId(list, id) == SelectSeq(list, LAMBDA todo : todo.id # id)

\* setTodos((prev) => prev.filter(...))
HandleDeleteThen(p) ==
    /\ clientTodos' = WithoutId(clientTodos, pending[p].input.id)
    /\ UNCHANGED <<isLoading, isDemo, storage>>

HandleDeleteCatch(p) ==
    /\ Fallback(p, WithoutId(ClosedOver(p), pending[p].input.id))
    /\ UNCHANGED clientNow

\* the catch block of the handler p runs
Catch(p) ==
    /\ CASE pending[p].op = "loadTodos" -> LoadTodosCatch(p)
         [] pending[p].op = "handleSubmit" -> HandleSubmitCatch(p)
         [] pending[p].op = "handleToggle" -> HandleToggleCatch(p)
         [] pending[p].op = "handleDelete" -> HandleDeleteCatch(p)
    /\ clientDone' = Done(p, TRUE)
    /\ pending' = [pending EXCEPT ![p] = NoPending]
    /\ UNCHANGED clientCalls

\* the rest of the try block of the handler p runs with what the call returned
Then(p, outcome) ==
    /\ CASE pending[p].op = "loadTodos" -> LoadTodosThen(p, outcome.todos)
         [] pending[p].op = "handleSubmit" -> HandleSubmitThen(p, outcome.todo)
         [] pending[p].op = "handleToggle" ->
                HandleToggleThen(p, IF outcome.kind = "todo" THEN outcome.todo
                                    ELSE Undefined)
         [] pending[p].op = "handleDelete" -> HandleDeleteThen(p)
    /\ clientDone' = Done(p, FALSE)
    /\ pending' = [pending EXCEPT ![p] = NoPending]
    /\ UNCHANGED <<clientNow, clientCalls>>

\* the trpc call does not reach the server: its promise rejects
CallFails(p) ==
    /\ response = NoResponse
    /\ pending[p] # NoPending
    /\ pending[p].stage = "sent"
    /\ Catch(p)
    /\ UNCHANGED serverVars

\* the server runs the handler of the call p
Served(p) ==
    /\ pending[p] # NoPending
    /\ pending[p].stage = "sent"
    /\ pending' = [pending EXCEPT ![p].stage = "served"]
    /\ UNCHANGED <<clientTodos, isLoading, isDemo, storage, clientNow, clientCalls,
                   clientDone>>

ServeGetTodos(p) == pending[p].op = "loadTodos" /\ Served(p) /\ GetTodos(p)
ServeCreateTodo(p) ==
    /\ pending[p].op = "handleSubmit"
    /\ Served(p)
    /\ CreateTodo(p, FormInput(pending[p].input))
ServeToggleTodo(p) ==
    pending[p].op = "handleToggle" /\ Served(p) /\ ToggleSelect(p, pending[p].input.id)
ServeDeleteTodo(p) ==
    pending[p].op = "handleDelete" /\ Served(p) /\ DeleteTodo(p, pending[p].input.id)

\* the trpc call of p settles with what the server handler returned or threw
Receive(p) ==
    /\ response # NoResponse
    /\ response.proc = p
    /\ Deliver
    /\ IF response.outcome.kind = "error"
       THEN Catch(p)
       ELSE Then(p, response.outcome)

\* the ids of the todos shown, which are the ids a click can name
IdsShown == {clientTodos[i].id : i \in DOMAIN clientTodos}

TickClient ==
    /\ response = NoResponse
    /\ clientNow < MaxTime
    /\ clientNow' = clientNow + 1
    /\ UNCHANGED <<clientTodos, isLoading, isDemo, storage, pending, clientCalls,
                   clientDone>>

\* ---------------------------------------------------------------- specification
InitServer ==
    /\ todos = {}
    /\ nextId = 1
    /\ dbNow = 0
    /\ jsNow = 0
    /\ pc = [p \in Procs |-> "idle"]
    /\ call = [p \in Procs |-> NoCall]
    /\ existingTodos = [p \in Procs |-> {}]
    /\ setValues = [p \in Procs |-> NoValues]
    /\ response = NoResponse
    /\ logged = <<>>
    /\ before = {}
    /\ toggleLog = <<>>

\* the server with no App open
Init ==
    /\ InitServer
    /\ clientTodos = <<>>
    /\ isLoading = FALSE
    /\ isDemo = FALSE
    /\ storage = Null
    /\ pending = [p \in Procs |-> NoPending]
    /\ clientNow = 0
    /\ clientCalls = 0
    /\ clientDone = NoPending

\* The server handed one request at a time: each handler runs to its end before
\* the next begins, over every input.
Next ==
    \/ \E input \in CreateInputs : CreateTodo(Req, input) /\ UNCHANGED <<toggleLog, clientVars>>
    \/ \E id \in Ids : ToggleSelect(Req, id) /\ UNCHANGED <<toggleLog, clientVars>>
    \/ ToggleCheck(Req) /\ UNCHANGED <<toggleLog, clientVars>>
    \/ ToggleUpdate(Req) /\ UNCHANGED <<toggleLog, clientVars>>
    \/ \E id \in Ids : DeleteTodo(Req, id) /\ UNCHANGED <<toggleLog, clientVars>>
    \/ \E input \in UpdateInputs : UpdateSelect(Req, input) /\ UNCHANGED <<toggleLog, clientVars>>
    \/ UpdateCheck(Req) /\ UNCHANGED <<toggleLog, clientVars>>
    \/ UpdateWrite(Req) /\ UNCHANGED <<toggleLog, clientVars>>
    \/ GetTodos(Req) /\ UNCHANGED <<toggleLog, clientVars>>
    \/ Deliver /\ UNCHANGED <<toggleLog, clientVars>>
    \/ TickDb /\ UNCHANGED <<toggleLog, clientVars>>
    \/ TickJs /\ UNCHANGED <<toggleLog, clientVars>>

Spec == Init /\ [][Next]_vars

\* The server running the requests of Procs at once: their steps interleave.
NextConcurrent ==
    \/ \E p \in Procs, input \in PlainCreateInputs :
            CreateTodo(p, input) /\ UNCHANGED <<toggleLog, clientVars>>
    \/ \E p \in Procs, id \in Ids : ToggleSelect(p, id) /\ UNCHANGED <<toggleLog, clientVars>>
    \/ \E p \in Procs : ToggleCheck(p) /\ UNCHANGED <<toggleLog, clientVars>>
    \/ \E p \in Procs : ToggleUpdate(p) /\ UNCHANGED <<toggleLog, clientVars>>
    \/ \E p \in Procs, id \in Ids : DeleteTodo(p, id) /\ UNCHANGED <<toggleLog, clientVars>>
    \/ \E p \in Procs, input \in PlainUpdateInputs :
            UpdateSelect(p, input) /\ UNCHANGED <<toggleLog, clientVars>>
    \/ \E p \in Procs : UpdateCheck(p) /\ UNCHANGED <<toggleLog, clientVars>>
    \/ \E p \in Procs : UpdateWrite(p) /\ UNCHANGED <<toggleLog, clientVars>>
    \/ Deliver /\ UNCHANGED <<toggleLog, clientVars>>
    \/ TickDb /\ UNCHANGED <<toggleLog, clientVars>>
    \/ TickJs /\ UNCHANGED <<toggleLog, clientVars>>

SpecConcurrent == Init /\ [][NextConcurrent]_vars

\* The server handed one request at a time, with a database whose statements
\* may fail.
NextFailures ==
    \/ \E input \in PlainCreateInputs : CreateTodo(Req, input) /\ UNCHANGED <<toggleLog, clientVars>>
    \/ \E input \in PlainCreateInputs, error \in StoreErrors :
            CreateTodoFails(Req, input, error) /\ UNCHANGED <<toggleLog, clientVars>>
    \/ \E id \in Ids : ToggleSelect(Req, id) /\ UNCHANGED <<toggleLog, clientVars>>
    \/ \E id \in Ids, error \in StoreErrors :
            ToggleSelectFails(Req, id, error) /\ UNCHANGED <<toggleLog, clientVars>>
    \/ ToggleCheck(Req) /\ UNCHANGED <<toggleLog, clientVars>>
    \/ ToggleUpdate(Req) /\ UNCHANGED <<toggleLog, clientVars>>
    \/ \E error \in StoreErrors : ToggleUpdateFails(Req, error) /\ UNCHANGED <<toggleLog, clientVars>>
    \/ \E id \in Ids : DeleteTodo(Req, id) /\ UNCHANGED <<toggleLog, clientVars>>
    \/ \E id \in Ids, error \in StoreErrors :
            DeleteTodoFails(Req, id, error) /\ UNCHANGED <<toggleLog, clientVars>>
    \/ Deliver /\ UNCHANGED <<toggleLog, clientVars>>
    \/ TickDb /\ UNCHANGED <<toggleLog, clientVars>>
    \/ TickJs /\ UNCHANGED <<toggleLog, clientVars>>

SpecFailures == Init /\ [][NextFailures]_vars

\* One App, opened on a server that may or may not be reachable, with one
\* handler call at a time.
InitClient ==
    /\ InitServer
    /\ clientTodos = <<>>
    /\ isLoading = TRUE
    /\ isDemo = FALSE
    /\ storage \in {Null} \cup DamagedItems
    /\ pending = [p \in Procs |->
          IF p = Req THEN [op |-> "loadTodos", input |-> <<>>, todos |-> <<>>,
                           isDemo |-> FALSE, stage |-> "sent"]
          ELSE NoPending]
    /\ clientNow = 0
    /\ clientCalls = 0
    /\ clientDone = NoPending

NextClient ==
    \/ Reload(Req) /\ UNCHANGED <<serverVars, toggleLog>>
    \/ \E formData \in PlainFormDatas :
            HandleSubmit(Req, formData) /\ UNCHANGED <<serverVars, toggleLog>>
    \/ \E id \in IdsShown : HandleToggle(Req, id) /\ UNCHANGED <<serverVars, toggleLog>>
    \/ \E id \in IdsShown : HandleDelete(Req, id) /\ UNCHANGED <<serverVars, toggleLog>>
    \/ CallFails(Req) /\ UNCHANGED toggleLog
    \/ ServeGetTodos(Req) /\ UNCHANGED toggleLog
    \/ ServeCreateTodo(Req) /\ UNCHANGED toggleLog
    \/ ServeToggleTodo(Req) /\ UNCHANGED toggleLog
    \/ ServeDeleteTodo(Req) /\ UNCHANGED toggleLog
    \/ ToggleCheck(Req) /\ UNCHANGED <<toggleLog, clientVars>>
    \/ ToggleUpdate(Req) /\ UNCHANGED <<toggleLog, clientVars>>
    \/ Receive(Req) /\ UNCHANGED toggleLog
    \/ TickDb /\ UNCHANGED <<toggleLog, clientVars>>
    \/ TickJs /\ UNCHANGED <<toggleLog, clientVars>>
    \/ TickClient /\ UNCHANGED <<serverVars, toggleLog>>

SpecClient == InitClient /\ [][NextClient]_vars

\* One App on a server that is never reachable; handlers may be called while
\* the calls of others are still waiting.
NextOffline ==
    \/ \E p \in Procs : Reload(p) /\ UNCHANGED <<serverVars, toggleLog>>
    \/ \E p \in Procs, formData \in PlainFormDatas :
            HandleSubmit(p, formData) /\ UNCHANGED <<serverVars, toggleLog>>
    \/ \E p \in Procs, id \in IdsShown :
            HandleToggle(p, id) /\ UNCHANGED <<serverVars, toggleLog>>
    \/ \E p \in Procs, id \in IdsShown :
            HandleDelete(p, id) /\ UNCHANGED <<serverVars, toggleLog>>
    \/ \E p \in Procs : CallFails(p) /\ UNCHANGED toggleLog
    \/ TickClient /\ UNCHANGED <<serverVars, toggleLog>>

SpecOffline == InitClient /\ [][NextOffline]_vars

\* One App on a server that every call reaches, with one handler call at a time.
NextOnline ==
    \/ Reload(Req) /\ UNCHANGED <<serverVars, toggleLog>>
    \/ \E formData \in PlainFormDatas :
            HandleSubmit(Req, formData) /\ UNCHANGED <<serverVars, toggleLog>>
    \/ \E id \in IdsShown : HandleToggle(Req, id) /\ UNCHANGED <<serverVars, toggleLog>>
    \/ \E id \in IdsShown : HandleDelete(Req, id) /\ UNCHANGED <<serverVars, toggleLog>>
    \/ ServeGetTodos(Req) /\ UNCHANGED toggleLog
    \/ ServeCreateTodo(Req) /\ UNCHANGED toggleLog
    \/ ServeToggleTodo(Req) /\ UNCHANGED toggleLog
    \/ ServeDeleteTodo(Req) /\ UNCHANGED toggleLog
    \/ ToggleCheck(Req) /\ UNCHANGED <<toggleLog, clientVars>>
    \/ ToggleUpdate(Req) /\ UNCHANGED <<toggleLog, clientVars>>
    \/ Receive(Req) /\ UNCHANGED toggleLog
    \/ TickDb /\ UNCHANGED <<toggleLog, clientVars>>
    \/ TickJs /\ UNCHANGED <<toggleLog, clientVars>>

SpecOnline == InitClient /\ [][NextOnline]_vars

\* ---------------------------------------------------------------- toggle histories
\* Concurrent createTodo and toggleTodo calls, with every toggleTodo call's
\* beginning and end written to toggleLog.
CallEvent(p, id, rows) == [kind |-> "call", proc |-> p, id |-> id, read |-> rows]
ReturnEvent(r) == [kind |-> "return", proc |-> r.proc, id |-> r.input.id,
                   outcome |-> r.outcome]
CallsBegun == Cardinality({i \in DOMAIN toggleLog : toggleLog[i].kind = "call"})

NextToggles ==
    \/ \E p \in Procs, input \in PlainCreateInputs :
            CreateTodo(p, input) /\ UNCHANGED <<toggleLog, clientVars>>
    \/ \E p \in Procs, id \in Ids :
            /\ CallsBegun < MaxToggleCalls
            /\ ToggleSelect(p, id)
            /\ toggleLog' = Append(toggleLog, CallEvent(p, id, existingTodos'[p]))
            /\ UNCHANGED clientVars
    \/ \E p \in Procs :
            /\ ToggleCheck(p)
            /\ toggleLog' = IF response' # NoResponse
                            THEN Append(toggleLog, ReturnEvent(response'))
                            ELSE toggleLog
            /\ UNCHANGED clientVars
    \/ \E p \in Procs :
            /\ ToggleUpdate(p)
            /\ toggleLog' = Append(toggleLog, ReturnEvent(response'))
            /\ UNCHANGED clientVars
    \/ Deliver /\ UNCHANGED <<toggleLog, clientVars>>
    \/ TickDb /\ UNCHANGED <<toggleLog, clientVars>>
    \/ TickJs /\ UNCHANGED <<toggleLog, clientVars>>

SpecToggles == Init /\ [][NextToggles]_vars

\* ================================================================ properties
\* In a state that a handler's last step has just produced, response is the
\* outcome it handed back, before is the table as that step found it, and todos
\* is the table as it left it.
TargetId == response.input.id
TargetsBefore == {r \in before : r.id = TargetId}
TargetsAfter == {r \in todos : r.id = TargetId}
IsNotFoundMessage(m) == m[Len(m)] = " not found"

\* C1: for every valid input, createTodo adds exactly one record to the table
\* and returns it; the record has completed = FALSE, created_at = updated_at and
\* an id no record of the table had; the records that were there are unchanged.
C1_CreateAddsOneFreshRecord ==
    response.op = "createTodo" =>
        /\ response.outcome.kind = "todo"
        /\ LET row == response.outcome.todo IN
            /\ row \notin before
            /\ todos = before \cup {row}
            /\ Cardinality(todos) = Cardinality(before) + 1
            /\ row.completed = FALSE
            /\ row.created_at = row.updated_at
            /\ \A r \in before : r.id # row.id
            /\ row.title = response.input.title

C1_Witness ==
    /\ response.op = "createTodo"
    /\ before # {}
    /\ response.outcome.todo \in todos

\* C2: a toggleTodo on an existing id, run without interleaving, negates the
\* record's completed flag, sets its updated_at to a strictly later time, leaves
\* its other fields and every other record unchanged, and returns the stored
\* record.
C2_ToggleFlipsAndAdvances ==
    (response.op = "toggleTodo" /\ TargetsBefore # {}) =>
        /\ response.outcome.kind = "todo"
        /\ \E old \in TargetsBefore :
            LET new == response.outcome.todo IN
            /\ new = [old EXCEPT !.completed = ~old.completed,
                                 !.updated_at = new.updated_at]
            /\ new.updated_at > old.updated_at
            /\ todos = (before \ {old}) \cup {new}

\* The part of C2 that does not speak of time: the flag is negated, updated_at
\* is the handler's clock reading, nothing else changes.
ToggleFlipsAndFrames ==
    (response.op = "toggleTodo" /\ TargetsBefore # {}) =>
        /\ response.outcome.kind = "todo"
        /\ \E old \in TargetsBefore :
            LET new == response.outcome.todo IN
            /\ new = [old EXCEPT !.completed = ~old.completed,
                                 !.updated_at = new.updated_at]
            /\ new.updated_at <= jsNow
            /\ todos = (before \ {old}) \cup {new}

\* C5: deleteTodo never raises for a missing id; it reports success exactly
\* when a record with the id was in the table when the DELETE ran, and after a
\* success no record with the id is in the table or in what getTodos returns.
C5_DeleteReportsRemoval ==
    response.op = "deleteTodo" =>
        /\ response.outcome.kind = "deleted"
        /\ response.outcome.success = (\E r \in before : r.id = TargetId)
        /\ response.outcome.success =>
            /\ TargetsAfter = {}
            /\ \A s \in GetTodosResults(todos) : \A i \in DOMAIN s : s[i].id # TargetId

C5_Witness ==
    /\ response.op = "deleteTodo"
    /\ response.outcome.success
    /\ TargetsBefore # {}
    /\ todos # {}

\* C6: deleteTodo removes at most the record with the given id; every other
\* record stays in the table with all its fields, whether the id existed or not.
C6_DeleteLeavesOthers ==
    response.op = "deleteTodo" =>
        /\ \A r \in before : r.id # TargetId => r \in todos
        /\ todos \subseteq before

C6_Witness ==
    /\ response.op = "deleteTodo"
    /\ TargetsBefore # {}
    /\ todos # {}
    /\ todos = before \ TargetsBefore

\* C7: toggleTodo on an id that matches no record throws "Todo with id <id> not
\* found" and leaves the table as it was.
C7_ToggleMissingIdThrows ==
    (response.op = "toggleTodo" /\ TargetsBefore = {}) =>
        /\ response.outcome.kind = "error"
        /\ response.outcome.message = <<"Todo with id ", TargetId, " not found">>
        /\ todos = before

C7_Witness ==
    /\ response.op = "toggleTodo"
    /\ response.outcome.kind = "error"
    /\ before # {}

\* C8: updateTodo on an id that matches no record fails with a not-found error;
\* no record is created and no record is altered.
C8_UpdateMissingIdThrows ==
    (response.op = "updateTodo" /\ TargetsBefore = {}) =>
        /\ response.outcome.kind = "error"
        /\ IsNotFoundMessage(response.outcome.message)
        /\ todos = before

C8_Witness ==
    /\ response.op = "updateTodo"
    /\ response.outcome.kind = "error"
    /\ before # {}
    /\ IsGiven(response.input.title)

\* C9: updateTodo on an existing id changes exactly the fields its input gives
\* and updated_at, which becomes strictly later even when the input gives only
\* the id; id, created_at and the fields left out keep their values; the record
\* returned is the record stored.
C9_UpdateChangesGivenFields ==
    (response.op = "updateTodo" /\ TargetsBefore # {}) =>
        /\ response.outcome.kind = "todo"
        /\ \E old \in TargetsBefore :
            LET new == response.outcome.todo
                input == response.input IN
            /\ new.id = old.id
            /\ new.created_at = old.created_at
            /\ new.title = IF IsGiven(input.title) THEN input.title[1] ELSE old.title
            /\ new.description = IF IsGiven(input.description)
                                 THEN input.description[1] ELSE old.description
            /\ new.completed = IF IsGiven(input.completed)
                               THEN input.completed[1] ELSE old.completed
            /\ new.updated_at > old.updated_at
            /\ todos = (before \ {old}) \cup {new}

\* The part of C9 that does not speak of time.
UpdateChangesGivenFieldsOnly ==
    (response.op = "updateTodo" /\ TargetsBefore # {}) =>
        /\ response.outcome.kind = "todo"
        /\ \E old \in TargetsBefore :
            LET new == response.outcome.todo
                input == response.input IN
            /\ new.id = old.id
            /\ new.created_at = old.created_at
            /\ new.title = IF IsGiven(input.title) THEN input.title[1] ELSE old.title
            /\ new.description = IF IsGiven(input.description)
                                 THEN input.description[1] ELSE old.description
            /\ new.completed = IF IsGiven(input.completed)
                               THEN input.completed[1] ELSE old.completed
            /\ new.updated_at <= jsNow
            /\ todos = (before \ {old}) \cup {new}

\* C10: updateTodo with description = null stores null whatever was stored, and
\* with description left out keeps what was stored, null included.
C10_UpdateNullVersusOmitted ==
    (response.op = "updateTodo" /\ response.outcome.kind = "todo") =>
        \A old \in TargetsBefore : \A new \in TargetsAfter :
            /\ response.input.description = <<Null>> => new.description = Null
            /\ response.input.description = <<>> => new.description = old.description

C10_Witness ==
    /\ response.op = "updateTodo"
    /\ response.outcome.kind = "todo"
    /\ response.input.description = <<Null>>
    /\ \E old \in TargetsBefore : old.description = Str("x")
    /\ \E new \in TargetsAfter : new.description = Null

\* C11: createTodo stores and returns the description given when it is a
\* non-empty string, and null when the description is left out, null or the
\* empty string; the record returned is the record stored.
C11_CreateDescriptionOrNull ==
    response.op = "createTodo" =>
        LET d == response.input.description
            row == response.outcome.todo IN
        /\ row \in todos
        /\ \A r \in todos : r.id = row.id => r.description = row.description
        /\ row.description = IF d \in {<<>>, <<Null>>, <<Str("")>>} THEN Null ELSE d[1]

C11_Witness ==
    /\ response.op = "createTodo"
    /\ response.input.description = <<Str("")>>
    /\ response.outcome.todo.description = Null
    /\ \E r \in before : r.description = Str("x")

\* C12: a description given as the empty string to createTodo or updateTodo is
\* stored and read back as the empty string, and one given as null or left out
\* on createTodo is stored and read back as null.
C12_EmptyDescriptionPreserved ==
    (response.op \in {"createTodo", "updateTodo"} /\ response.outcome.kind = "todo") =>
        LET d == response.input.description
            row == response.outcome.todo IN
        /\ d = <<Str("")>> =>
            /\ row.description = Str("")
            /\ \A s \in GetTodosResults(todos) : \A i \in DOMAIN s :
                  s[i].id = row.id => s[i].description = Str("")
        /\ (response.op = "createTodo" /\ d \in {<<>>, <<Null>>}) =>
            row.description = Null

\* The part of C12 that holds: updateTodo keeps the empty string, and createTodo
\* stores null for a description left out or null.
EmptyDescriptionPreservedByUpdate ==
    (response.op \in {"createTodo", "updateTodo"} /\ response.outcome.kind = "todo") =>
        LET d == response.input.description
            row == response.outcome.todo IN
        /\ (response.op = "updateTodo" /\ d = <<Str("")>>) => row.description = Str("")
        /\ (response.op = "createTodo" /\ d \in {<<>>, <<Null>>}) =>
            row.description = Null

\* C13: getTodos returns every record of the table exactly once, in an order in
\* which created_at never increases from one result to the next, the empty
\* sequence for an empty table, and leaves the table as it was.
C13_GetTodosNewestFirst ==
    response.op = "getTodos" =>
        LET s == response.outcome.todos IN
        /\ todos = before
        /\ {s[i] : i \in DOMAIN s} = todos
        /\ DOMAIN s = 1..Cardinality(todos)
        /\ \A i \in DOMAIN s : (i + 1) \in DOMAIN s =>
              s[i].created_at >= s[i + 1].created_at
        /\ todos = {} => s = <<>>

C13_Witness ==
    /\ response.op = "getTodos"
    /\ Cardinality(todos) = 2
    /\ response.outcome.todos[1].created_at > response.outcome.todos[2].created_at
    /\ response.outcome.todos[1].id > response.outcome.todos[2].id

IdsOf(rows) == {r.id : r \in rows}

\* C14: no two records of the table share an id; no step changes the id of a
\* record or brings back an id that was removed; and the id a createTodo assigns
\* is one the sequence had not given out before, so it is the id of no record,
\* present or deleted.
C14_IdsNeverReusedOrChanged ==
    /\ [](/\ Cardinality(IdsOf(todos)) = Cardinality(todos)
          /\ \A r \in todos : r.id < nextId)
    /\ [][/\ nextId' >= nextId
          /\ \A r \in todos' : r.id \in IdsOf(todos) \/ (r.id >= nextId /\ r.id < nextId')
          /\ response'.op \in {"toggleTodo", "updateTodo"} =>
                IdsOf(todos') = IdsOf(todos)
          /\ Cardinality(todos') > Cardinality(todos) => response'.op = "createTodo"]_vars

\* an id was assigned, its record deleted, and a later createTodo has run
C14_Witness ==
    /\ response.op = "createTodo"
    /\ nextId = 3
    /\ IdsOf(todos) = {2}

\* C15: every record of the table has created_at <= updated_at, in every
\* reachable state.
C15_CreatedNotAfterUpdated ==
    \A r \in todos : r.created_at <= r.updated_at

\* The part of C15 that holds: a record is stored with created_at = updated_at
\* and created_at never changes; updated_at is a reading of one of the clocks.
CreatedAtKept ==
    /\ \A r \in todos : r.created_at <= dbNow /\ (r.updated_at <= dbNow \/ r.updated_at <= jsNow)
    /\ (response.op = "createTodo" /\ response.outcome.kind = "todo") =>
          response.outcome.todo.created_at = response.outcome.todo.updated_at
    /\ \A r \in todos : \A q \in before : r.id = q.id => r.created_at = q.created_at

\* C16: when a database statement of createTodo, toggleTodo or deleteTodo fails,
\* the handler logs the error and throws that same error, its request is over
\* with no further statement, no record is returned, and the table is as the
\* failed statement found it.
C16_StoreFailureRethrown ==
    (response.op \in {"createTodo", "toggleTodo", "deleteTodo"} /\ Len(logged) = 2
        /\ logged[2] \in StoreErrors) =>
        /\ response.outcome = [kind |-> "error", message |-> logged[2]]
        /\ pc[response.proc] = "idle"
        /\ call[response.proc] = NoCall
        /\ todos = before

\* a failed statement always ends in a log line, and an error thrown is logged
EveryFailureLogged ==
    response.op \in {"createTodo", "toggleTodo", "deleteTodo"} =>
        (response.outcome.kind = "error" <=> Len(logged) = 2)

\* a statement of a toggleTodo on the id of a record has failed
C16_Witness ==
    /\ response.op = "toggleTodo"
    /\ response.outcome.kind = "error"
    /\ response.outcome.message \in StoreErrors
    /\ \E r \in todos : r.id = response.input.id
    /\ logged = <<"Toggle todo failed:", response.outcome.message>>

\* C20: with toggleTodo and deleteTodo calls on one id interleaved, a toggleTodo
\* either throws the not-found error or returns the updated record with the id
\* asked for, and a record deleted is not written back by the toggle.
C20_ToggleReturnsRecordOrNotFound ==
    response.op = "toggleTodo" =>
        /\ \/ /\ response.outcome.kind = "error"
              /\ response.outcome.message = <<"Todo with id ", TargetId, " not found">>
           \/ /\ response.outcome.kind = "todo"
              /\ response.outcome.todo.id = TargetId
        /\ TargetsBefore = {} => TargetsAfter = {}

\* The part of C20 that holds: a record deleted is not written back.
ToggleNeverWritesBack ==
    response.op = "toggleTodo" =>
        /\ response.outcome.kind \in {"error", "todo", "undefined"}
        /\ response.outcome.kind = "todo" => response.outcome.todo.id = TargetId
        /\ response.outcome.kind = "undefined" => TargetsBefore = {}
        /\ TargetsBefore = {} => TargetsAfter = {}

\* ---------------------------------------------------------------- App properties
\* In a state that follows the end of an App handler, clientDone names the
\* handler, says whether its catch block ran, and holds the list shown when it
\* ended (shown) and the list it had closed over (todos).
FellBack ==
    /\ clientDone.op \in {"handleSubmit", "handleToggle", "handleDelete"}
    /\ clientDone.failed

\* C17: whenever a create, toggle or delete of the App falls back to local
\* handling, the resulting list is saved under 'demo-todos', so that a load that
\* cannot reach the server shows that list with its timestamps revived, whether
\* the first load reached the server or not.
C17_FallbackIsSaved ==
    FellBack =>
        /\ SavedTodosLoad(storage)
        /\ TodosWithDates(JSONParse(storage[1])) = clientTodos

\* The part of C17 that holds: the list is saved when the handler closed over
\* isDemo = TRUE, which is when the load of this page had failed.
FallbackIsSavedInDemoMode ==
    (FellBack /\ clientDone.isDemo) =>
        /\ SavedTodosLoad(storage)
        /\ TodosWithDates(JSONParse(storage[1])) = clientTodos

\* C18: when a create, toggle or delete call of the App fails, the list shown
\* changes as the server operation would have changed it: create adds one record
\* with the form's title, completed = FALSE and a null description when the
\* description typed is empty; toggle negates completed and sets updated_at of
\* the records with the id; delete removes the records with the id; every other
\* record shown stays as it was.
C18_FallbackAppliesTheChange ==
    FellBack =>
        LET old == clientDone.shown
            input == clientDone.input IN
        CASE clientDone.op = "handleSubmit" ->
                /\ Len(clientTodos) = Len(old) + 1
                /\ \A i \in DOMAIN old : clientTodos[i] = old[i]
                /\ LET new == clientTodos[Len(clientTodos)] IN
                    /\ new.title = input.title
                    /\ new.completed = FALSE
                    /\ new.description =
                          (IF input.typed = "" THEN Null ELSE Str(input.typed))
          [] clientDone.op = "handleToggle" ->
                /\ Len(clientTodos) = Len(old)
                /\ \A i \in DOMAIN old :
                    IF old[i].id = input.id
                    THEN /\ clientTodos[i] =
                              [old[i] EXCEPT !.completed = ~old[i].completed,
                                             !.updated_at = clientTodos[i].updated_at]
                         /\ clientTodos[i].updated_at <= clientNow
                    ELSE clientTodos[i] = old[i]
          [] clientDone.op = "handleDelete" ->
                clientTodos = SelectSeq(old, LAMBDA todo : todo.id # input.id)

\* a local create on a list with records, with an empty description typed
C18_Witness ==
    /\ FellBack
    /\ clientDone.op = "handleSubmit"
    /\ clientDone.input.typed = ""
    /\ Len(clientDone.shown) >= 1
    /\ Len(clientTodos) = Len(clientDone.shown) + 1

\* id and completed of each record of a list
Flags(list) == [i \in DOMAIN list |-> [id |-> list[i].id, completed |-> list[i].completed]]

\* C19: when a handler of the App falls back after another handler, called
\* before it fell back, has changed the list, the list shown and the list saved
\* hold the changes of both: the later fallback changes the list as it now is.
C19_OverlappingFallbacksKeepBoth ==
    (FellBack /\ clientDone.shown # clientDone.todos) =>
        LET old == clientDone.shown
            input == clientDone.input IN
        /\ SavedTodosLoad(storage)
        /\ TodosWithDates(JSONParse(storage[1])) = clientTodos
        /\ CASE clientDone.op = "handleSubmit" ->
                  /\ Len(clientTodos) = Len(old) + 1
                  /\ \A i \in DOMAIN old : Flags(clientTodos)[i] = Flags(old)[i]
             [] clientDone.op = "handleToggle" ->
                  Flags(clientTodos) =
                      [i \in DOMAIN old |->
                          [id |-> old[i].id,
                           completed |-> IF old[i].id = input.id THEN ~old[i].completed
                                         ELSE old[i].completed]]
             [] clientDone.op = "handleDelete" ->
                  Flags(clientTodos) =
                      Flags(SelectSeq(old, LAMBDA todo : todo.id # input.id))

\* a handler of the App has ended in its try block and no call is waiting
CompletedOnline ==
    /\ clientDone # NoPending
    /\ ~clientDone.failed
    /\ \A p \in Procs : pending[p] = NoPending
    /\ response = NoResponse

\* C21: with one App and every call reaching the server, after each completed
\* load, create, toggle or delete the list shown is a list getTodos would return
\* for the table: the same records, newest created first.
C21_ShownIsWhatGetTodosReturns ==
    CompletedOnline => clientTodos \in GetTodosResults(todos)

\* The part of C21 that holds: the list shown holds the records of the table,
\* each once.
ShownRecordsAreTheTable ==
    CompletedOnline =>
        /\ {clientTodos[i] : i \in DOMAIN clientTodos} = todos
        /\ Len(clientTodos) = Cardinality(todos)

\* a create has completed on a list that held an older record
ShownRecordsWitness ==
    /\ CompletedOnline
    /\ clientDone.op = "handleSubmit"
    /\ Len(clientTodos) = 2
    /\ clientTodos[1].created_at < clientTodos[2].created_at

\* ---------------------------------------------------------------- toggle histories
\* the events of toggleLog that name the id, in order
LogOf(id) == SelectSeq(toggleLog, LAMBDA e : e.id = id)

\* n calls on one existing id, one after another: from position i on, L holds
\* call, return, call, return, ... with each call begun after the return of the
\* one before and nothing else on that id in between
IsRun(L, i, n) ==
    /\ n >= 1
    /\ i + 2 * n - 1 <= Len(L)
    /\ \A k \in 0..(n - 1) :
        /\ L[i + 2 * k].kind = "call"
        /\ L[i + 2 * k + 1].kind = "return"
        /\ L[i + 2 * k + 1].proc = L[i + 2 * k].proc
    /\ L[i].read # {}

\* the completed flag the first call of the run read
InitialOf(L, i) == (CHOOSE r \in L[i].read : TRUE).completed
\* what the k-th call of the run returned
ReturnOf(L, i, k) == L[i + 2 * k - 1].outcome

Alternates(L, i, n) ==
    \A k \in 1..n :
        /\ ReturnOf(L, i, k).kind = "todo"
        /\ ReturnOf(L, i, k).todo.completed =
              (IF k % 2 = 1 THEN ~InitialOf(L, i) ELSE InitialOf(L, i))

StoredAfter(L, i, n, id) ==
    (i + 2 * n - 1 = Len(L)) =>
        \A r \in todos : r.id = id =>
            r.completed = (IF n % 2 = 0 THEN InitialOf(L, i) ELSE ~InitialOf(L, i))

\* C3: n >= 1 toggleTodo calls on one existing id, issued one after another,
\* return completed values that alternate strictly, beginning with the negation
\* of the initial value: the stored value after n calls is the initial value for
\* even n and its negation for odd n; and each call's updated_at is strictly
\* greater than that of the call before.
C3_SequentialTogglesAlternateAndAdvance ==
    \A id \in Ids : \A i \in 1..Len(LogOf(id)) : \A n \in 1..MaxToggleCalls :
        IsRun(LogOf(id), i, n) =>
            /\ Alternates(LogOf(id), i, n)
            /\ StoredAfter(LogOf(id), i, n, id)
            /\ \A k \in 2..n :
                ReturnOf(LogOf(id), i, k).todo.updated_at
                    > ReturnOf(LogOf(id), i, k - 1).todo.updated_at

\* The part of C3 that does not speak of time.
SequentialTogglesAlternate ==
    \A id \in Ids : \A i \in 1..Len(LogOf(id)) : \A n \in 1..MaxToggleCalls :
        IsRun(LogOf(id), i, n) =>
            /\ Alternates(LogOf(id), i, n)
            /\ StoredAfter(LogOf(id), i, n, id)

SequentialTogglesWitness ==
    \E id \in Ids : IsRun(LogOf(id), 1, 3) /\ Len(LogOf(id)) = 6

\* the return that ends the call at position i of L
ReturnIndex(L, i) ==
    CHOOSE j \in (i + 1)..Len(L) :
        /\ L[j].kind = "return"
        /\ L[j].proc = L[i].proc
        /\ \A m \in (i + 1)..(j - 1) : L[m].proc # L[i].proc
Returned2(L, i) ==
    \E j \in (i + 1)..Len(L) : L[j].kind = "return" /\ L[j].proc = L[i].proc

\* C4: two toggleTodo calls on one existing id that both read the same
\* pre-toggle record both write, and both return, the negation of the completed
\* flag they read, so the flag is flipped once and not twice.
C4_TogglesThatReadTheSameWriteTheSame ==
    \A id \in Ids :
        LET L == LogOf(id) IN
        \A i \in 1..Len(L) : \A j \in 1..Len(L) :
            (/\ i < j
             /\ L[i].kind = "call" /\ L[j].kind = "call"
             /\ L[i].proc # L[j].proc
             /\ L[i].read # {} /\ L[i].read = L[j].read
             /\ Returned2(L, i) /\ Returned2(L, j)) =>
                LET ri == L[ReturnIndex(L, i)].outcome
                    rj == L[ReturnIndex(L, j)].outcome IN
                /\ ri.kind = "todo" /\ rj.kind = "todo"
                /\ ri.todo.completed = rj.todo.completed
                /\ ri.todo.completed = ~InitialOf(L, i)

\* both calls begun before either ended, both ended with the same completed
\* flag, and the stored flag is one flip away from the one both read
C4_Witness ==
    \E id \in Ids :
        LET L == LogOf(id) IN
        /\ Len(L) = 4
        /\ L[1].kind = "call" /\ L[2].kind = "call" /\ L[1].proc # L[2].proc
        /\ L[1].read # {} /\ L[1].read = L[2].read
        /\ L[3].kind = "return" /\ L[4].kind = "return"
        /\ L[3].outcome.kind = "todo" /\ L[4].outcome.kind = "todo"
        /\ L[3].outcome.todo.completed = L[4].outcome.todo.completed
        /\ \A r \in todos : r.id = id => r.completed = ~InitialOf(L, 1)
        /\ \E r \in todos : r.id = id
====
